---- MODULE Spec2Model ----
(***************************************************************************)
(* State-machine model of the Trakt scrobbler of crunchyroll-html5:        *)
(* TraktScrobblerPlugin (src/unnamed/part_000) driving TraktApi            *)
(* (src/src/app/plugins/TraktApi.ts).                                      *)
(* CrunchyrollTrackerPlugin (src/unnamed/part_001) and Bootstrap.loadVideo  *)
(* (src/src/app/bootstrap.tsx) are modelled beside them.                   *)
(*                                                                         *)
(* JavaScript runs one callback at a time; an async function runs up to    *)
(* its next await and is resumed when the awaited request answers.  Each   *)
(* action below is one such run: the delivery of an event, or the          *)
(* continuation of one suspended call of _startScrobble/_updateScrobble.   *)
(***************************************************************************)
EXTENDS Integers, Sequences, FiniteSets, Bags, TLC

\* ---------------------------------------------------------------- bounds
\* Requests awaiting their response at the same time.
MaxInFlight == 2

\* ------------------------------------------------------------ vocabulary
Undef == "undefined"

\* enum ScrobbleState
Idle == "Idle"
Loading == "Loading"
Started == "Started"
Paused == "Paused"
Scrobbled == "Scrobbled"
NotFound == "NotFound"
Error == "Error"
ScrobbleState == {Idle, Loading, Started, Paused, Scrobbled, NotFound, Error}

\* PlaybackState values a playbackstatechange event can carry; BUFFERING
\* stands for every value that is none of PLAYING, PAUSED, ENDED.
PLAYING == "PLAYING"
PAUSED == "PAUSED"
ENDED == "ENDED"
BUFFERING == "BUFFERING"
PlaybackState == {PLAYING, PAUSED, ENDED, BUFFERING}

\* const TraktErrorCodes: the table's message for a status, as a set of
\* <<status, message>> pairs
TraktErrorCodes ==
  { <<"200", "Success">>,
    <<"201", "Success - new resource created (POST)">>,
    <<"204", "Success - no content to return (DELETE)">>,
    <<"400", "Bad Request - request couldn't be parsed">>,
    <<"401", "Unauthorized - OAuth must be provided">>,
    <<"403", "Forbidden - invalid API key or unapproved app">>,
    <<"404", "Not Found - method exists, but no record found">>,
    <<"405", "Method Not Found - method doesn't exist">>,
    <<"409", "Conflict - resource already created">>,
    <<"412", "Precondition Failed - use application/json content type">>,
    <<"422", "Unprocessible Entity - validation errors">>,
    <<"429", "Rate Limit Exceeded">>,
    <<"500", "Server Error - please open a support issue">>,
    <<"503", "Service Unavailable - server overloaded (try again in 30s)">>,
    <<"504", "Service Unavailable - server overloaded (try again in 30s)">>,
    <<"520", "Service Unavailable - Cloudflare error">>,
    <<"521", "Service Unavailable - Cloudflare error">>,
    <<"522", "Service Unavailable - Cloudflare error">> }

\* HTTP error statuses the service answers the plugin with
ErrorStatuses == {"404", "409", "500"}

\* statuses the table does not list; "0" is the status of a response that
\* never came
UnknownStatuses == {"0", "418", "502"}

StatusTexts == {"", "Bad Gateway"}

\* the template `Unknown error (${response.statusText})`, as a set of
\* <<statusText, message>> pairs
UnknownError ==
  { <<"", "Unknown error ()">>,
    <<"Bad Gateway", "Unknown error (Bad Gateway)">>,
    <<Undef, "Unknown error (undefined)">> }

\* IResponse as _getError reads it
Response(status, statusText) == [status |-> status, statusText |-> statusText]

\* a failed response with the status s, as the service answers the plugin
ErrorResponse(s) == Response(s, "")

\* a value caught that is no response: an Error
NoResponse == Response(Undef, Undef)

\* TraktApi._getError: the table's entry, else a synthesized error
MutantGetErrorServerError(response) ==
  [status |-> "500", error |-> "Server Error - please open a support issue"]

_getError(response) ==
  IF \E p \in TraktErrorCodes : p[1] = response.status
  THEN LET p == CHOOSE q \in TraktErrorCodes : q[1] = response.status
       IN [status |-> p[1], error |-> p[2]]
  ELSE [status |-> response.status,
        error |-> (CHOOSE u \in UnknownError : u[1] = response.statusText)[2]]

\* TraktApi.isError(obj), called without a code
isError(obj) == obj.status # Undef /\ obj.error # Undef

\* ---------------------------------------------------------------- values
\* ITraktMovie / ITraktShow as the plugin meets them: absent, the guess
\* scraped from the page (title, no ids; "untitled" when the title is
\* empty) or the service's canonical entity (title and ids).
Entities == {Undef, "guessed", "untitled", "canonical"}

\* the truthiness of entity.title
HasTitle(e) == e \in {"guessed", "canonical"}

\* ITraktEpisode; number_abs = 0 stands for an absent number_abs
NoEpisode == [defined |-> FALSE, number |-> 0, number_abs |-> 0, canonical |-> FALSE]

EpisodeNumbers == {1, 2}

\* no call was resumed
NoAnswer == [co |-> Undef]

\* ITraktScrobbleData, and `undefined` for this._data
NoData ==
  [defined |-> FALSE, movie |-> Undef, show |-> Undef, episode |-> NoEpisode,
   progress |-> 0]

\* What the media's metadata and the page say when _getScrobbleData reads
\* them: a movie or an episode, the title found or empty, the episode number.
Metadata ==
  { [isMovie |-> TRUE, title |-> t, episode |-> 0] : t \in BOOLEAN }
  \cup { [isMovie |-> FALSE, title |-> t, episode |-> n] :
           t \in BOOLEAN, n \in EpisodeNumbers }

\* TraktScrobblerPlugin._getScrobbleData, reading the metadata m while
\* _getProgress gives p
_getScrobbleData(m, p) ==
  IF m.isMovie
  THEN [defined |-> TRUE,
        movie |-> IF m.title THEN "guessed" ELSE "untitled",
        show |-> Undef,
        episode |-> NoEpisode,
        progress |-> p]
  ELSE [defined |-> TRUE,
        movie |-> Undef,
        show |-> IF m.title THEN "guessed" ELSE "untitled",
        episode |-> [defined |-> TRUE, number |-> m.episode,
                     number_abs |-> 0, canonical |-> FALSE],
        progress |-> p]

\* ITraktTokens. A token is there or not; expires is "past" or "future"
\* against the time the page loads, and `undefined` also for NaN.
NoTokens ==
  [access_token |-> FALSE, refresh_token |-> FALSE, expires |-> Undef,
   authentication_state |-> Undef]

\* the strings _generate_state makes
States == {"s1", "s2"}

\* IQueryAuthenticationResult: the query of the page's URL
NoQuery == [code |-> FALSE, state |-> Undef]

Queries == {NoQuery} \cup { [code |-> TRUE, state |-> s] : s \in States }

\* what an operation of the API client has returned: a value, or nothing
\* because it threw or has not returned yet
NotReturned ==
  [done |-> FALSE, threw |-> FALSE, value |-> [status |-> Undef, error |-> Undef]]

\* the API client has no operation under way
NoRequest ==
  [op |-> Undef, resolved |-> FALSE, parses |-> FALSE,
   thrown |-> [status |-> Undef, statusText |-> Undef]]

\* the last step delivered no playback state
NoInput == [ps |-> Undef, met |-> Undef]

\* Bootstrap._tracking is undefined
NoTracker == 0

\* the last step was no step of a token method
NoStep == [op |-> Undef, ok |-> TRUE]

VARIABLES
  access_token,  \* TraktApi._tokens.access_token is set
  refresh_token, \* TraktApi._tokens.refresh_token is set
  expires,       \* TraktApi._tokens.expires against the time of the page load
  authentication_state, \* TraktApi._tokens.authentication_state
  stored,        \* the record the storage keeps under TraktTokensKey
  query,         \* the code and state in the query of window.location.href
  pending,       \* bag of the suspended calls of TraktApi's token methods
  request,       \* the API client's operation under way and what its request comes to
  returned,      \* what the operation under way has returned, once it has
  tokensLoaded,  \* the constructor's _loadTokens() has finished
  hostLoaded,    \* the host has called load() and not yet unload()
  media,         \* TraktScrobblerPlugin._media is set
  listening,     \* the playbackstatechange listener is registered
  state,         \* TraktScrobblerPlugin._state
  error,         \* TraktScrobblerPlugin._error
  data,          \* TraktScrobblerPlugin._data
  inflight,      \* bag of the suspended async calls, each awaiting one response
  \* history variables, read by the properties only
  lastReport,    \* the action of the loaded session's most recent report
  got409,        \* a report of the loaded session's tracking states got a 409
  dropped,       \* the last step delivered an input in state Loading
  answered,      \* the call the last step resumed and the answer it got
  script,        \* inputs the scripted scenario has delivered
  calls,         \* scripted scenario: the API calls issued, oldest first
  replies,       \* scripted scenario: the answers received, oldest first
  input,         \* the playback state the last step delivered, and the state it met
  order,         \* the reports of the tracking states outstanding, oldest first
  late,          \* the last step applied a report's answer after a later report's
  did,           \* the step of a token method the last step was
  refreshes,     \* refresh-token requests the page's _loadTokens has issued
  currentTime,   \* IPlayerApi.getCurrentTime()
  duration,      \* IPlayerApi.getDuration()
  _intervals,    \* CrunchyrollTrackerPlugin._intervals, in milliseconds
  _elapsedTime,  \* CrunchyrollTrackerPlugin._elapsedTime
  _lastTime,     \* CrunchyrollTrackerPlugin._lastTime
  _callCount,    \* CrunchyrollTrackerPlugin._callCount
  _handler,      \* CrunchyrollTrackerPlugin._handler holds the three listeners
  event,         \* the handler of CrunchyrollTrackerPlugin the last step ran
  _tracking,     \* Bootstrap._tracking: a tracker of `trackers`, or NoTracker
  trackers,      \* the VideoTrackers created, oldest first: each disposed or not
  loading,       \* the calls of Bootstrap.loadVideo suspended at their await
  _initialVideoDetail, \* Bootstrap._initialVideoDetail is set
  _currentVideoDetail  \* Bootstrap._currentVideoDetail is set

plugin == <<state, error, data, inflight>>
host == <<access_token, tokensLoaded, hostLoaded, media, listening>>
manager == <<refresh_token, expires, authentication_state, stored, query, pending>>
history ==
  <<lastReport, got409, dropped, answered, script, calls, replies, input, order, late>>
audit == <<did, refreshes>>
client == <<request, returned>>
player == <<currentTime, duration>>
tracker == <<_intervals, _elapsedTime, _lastTime, _callCount, _handler, event>>
bootstrap ==
  <<_tracking, trackers, loading, _initialVideoDetail, _currentVideoDetail>>
vars ==
  <<host, plugin, manager, client, history, audit, player, tracker, bootstrap>>

\* TraktScrobblerPlugin._getProgress
_getProgress ==
  IF duration = 0 THEN 0 ELSE (currentTime * 100) \div duration

Init ==
  /\ access_token = FALSE
  /\ tokensLoaded = FALSE
  /\ hostLoaded = FALSE
  /\ media = FALSE
  /\ listening = FALSE
  /\ state = Idle
  /\ error = Undef
  /\ data = NoData
  /\ inflight = EmptyBag
  /\ lastReport = Undef
  /\ got409 = FALSE
  /\ dropped = FALSE
  /\ answered = NoAnswer
  /\ script = 0
  /\ calls = <<>>
  /\ replies = <<>>
  /\ refresh_token = FALSE
  /\ expires = Undef
  /\ authentication_state = Undef
  /\ stored = NoTokens
  /\ query = NoQuery
  /\ pending = EmptyBag
  /\ did = NoStep
  /\ refreshes = 0
  /\ request = NoRequest
  /\ returned = NotReturned
  /\ input = NoInput
  /\ order = <<>>
  /\ late = FALSE
  /\ _intervals = <<>>
  /\ _elapsedTime = 0
  /\ _lastTime = 0
  /\ _callCount = 0
  /\ _handler = FALSE
  /\ event = Undef
  /\ _tracking = NoTracker
  /\ trackers = <<>>
  /\ loading = 0
  /\ _initialVideoDetail = FALSE
  /\ _currentVideoDetail = FALSE
  /\ currentTime = 0
  /\ duration = 0

\* ------------------------------------------------------------ the service
\* the kind of item a request body names: a movie, or a show's episode
Kind(d) == IF d.movie # Undef THEN "movie" ELSE "show"

\* ITraktScobbleResult for a request of kind k: the service names the
\* action it recorded and may return the canonical movie, or show and
\* episode, it matched.
ScrobbleActions == {"start", "pause", "scrobble", "unknown"}

CanonicalEpisode(n) ==
  [defined |-> TRUE, number |-> n, number_abs |-> 0, canonical |-> TRUE]

ScrobblePayloads(k) ==
  { [movie |-> Undef, show |-> Undef, episode |-> NoEpisode] }
  \cup (IF k = "movie"
        THEN { [movie |-> "canonical", show |-> Undef, episode |-> NoEpisode] }
        ELSE { [movie |-> Undef, show |-> "canonical", episode |-> CanonicalEpisode(n)] :
                 n \in EpisodeNumbers })

ScrobbleSuccesses(k) ==
  { [status |-> Undef, error |-> Undef, action |-> a,
     movie |-> p.movie, show |-> p.show, episode |-> p.episode] :
      a \in ScrobbleActions, p \in ScrobblePayloads(k) }

\* TraktApi.scrobble: the parsed body, or _getError of the failed response
ScrobbleResults(k) ==
  ScrobbleSuccesses(k) \cup { _getError(ErrorResponse(s)) : s \in ErrorStatuses }

\* TraktApi.scrobble as the callers that read only the response's status
\* and action meet it (lines 360-368 and 388-407): the entities it may
\* carry are left out
ScrobbleAcks ==
  { [status |-> Undef, error |-> Undef, action |-> a,
     movie |-> Undef, show |-> Undef, episode |-> NoEpisode] : a \in ScrobbleActions }
  \cup { _getError(ErrorResponse(s)) : s \in ErrorStatuses }

\* ITraktSearchResult: score and the movie/show it carries
MaxHits == 2
SearchHit == [score : {1000, 500}, entity : {"canonical", Undef}]
HitLists == UNION { [1..n -> SearchHit] : n \in 0..MaxHits }

\* TraktApi.search: the parsed array, a parsed body that is no array
\* (array = FALSE), or _getError of the failed response
SearchResults ==
  { [status |-> Undef, error |-> Undef, array |-> TRUE, hits |-> h] : h \in HitLists }
  \cup { [status |-> Undef, error |-> Undef, array |-> FALSE, hits |-> <<>>] }
  \cup { _getError(ErrorResponse(s)) : s \in ErrorStatuses }

\* episodes of a season as the service lists them; number_abs is absent
\* (0) or the last episode number, so that an episode is found by its
\* number, by its absolute number, by both or by neither
MaxSeasonLen == 2
MaxPending == 2
AbsoluteNumbers == {0, 2}
SeasonEpisode ==
  [defined : {TRUE}, number : EpisodeNumbers,
   number_abs : AbsoluteNumbers, canonical : {TRUE}]
SeasonLists == UNION { [1..n -> SeasonEpisode] : n \in 0..MaxSeasonLen }

\* TraktApi.season: as TraktApi.search
SeasonResults ==
  { [status |-> Undef, error |-> Undef, array |-> TRUE, episodes |-> l] : l \in SeasonLists }
  \cup { [status |-> Undef, error |-> Undef, array |-> FALSE, episodes |-> <<>>] }
  \cup { _getError(ErrorResponse(s)) : s \in ErrorStatuses }

\* ------------------------------------------------------------ coroutines
\* A suspended call (two calls may be alike: inflight is a bag): `co` is
\* the await it is suspended at ("report1": line 273, "search": 298,
\* "season": 322, "retry": 360, "update": 388), `op`
\* the request awaited ("start", "pause", "stop", "search", "season"),
\* `type` the local variable of _startScrobble, `kind` the kind of item
\* the request names.  `stale` is a history tag: unload() ran since the
\* call began.
Call(stale, co, op, type, body) ==
  [stale |-> stale, co |-> co, op |-> op, type |-> type, kind |-> Kind(body)]

\* the calls suspended
Suspended == BagToSet(inflight)

\* the suspended call c is resumed and returns or throws: it is gone
Finish(c) == inflight' = inflight (-) SetToBag({c})

\* the suspended call c is resumed and awaits its next request
Await(c, co, op, type, body) ==
  inflight' = (inflight (-) SetToBag({c}))
                (+) SetToBag({Call(c.stale, co, op, type, body)})

\* a fresh call of an async function awaits its first request
Spawn(co, op, body) ==
  inflight' = inflight (+) SetToBag({Call(FALSE, co, op, Undef, body)})

\* the bound of the model on the requests outstanding
WithinBounds == BagCardinality(inflight') <= MaxInFlight

\* TraktScrobblerPlugin._handleApiError
_handleApiError(response) ==
  /\ error' = response.error
  /\ state' = Error

\* --------------------------------------------------------------- TraktApi
\* TraktApi._loadTokens, run by the constructor: the in-memory tokens are
\* empty until the stored record has been read; afterwards an access token
\* is present or not, as the record (and a refresh of it) say.
LoadTokens ==
  /\ ~tokensLoaded
  /\ tokensLoaded' = TRUE
  /\ access_token' \in BOOLEAN
  /\ UNCHANGED <<hostLoaded, media, listening, plugin>>

\* TraktApi.isAuthenticated
isAuthenticated == access_token

\* TraktApi.scrobble throws, before any request, without an access token
ScrobbleThrows == ~access_token

\* ----------------------------------------------------------------- IPlugin
\* TraktScrobblerPlugin.load
Load ==
  /\ ~hostLoaded
  /\ hostLoaded' = TRUE
  /\ IF ~isAuthenticated
     THEN UNCHANGED <<media, listening>>
     ELSE media' = TRUE /\ listening' = TRUE
  /\ UNCHANGED <<access_token, tokensLoaded, plugin>>

\* the bag b with every call tagged stale
Staled(b) ==
  LET Old(c) == [c EXCEPT !.stale = TRUE]
      Had(c) == IF c \in DOMAIN b THEN b[c] ELSE 0
  IN [n \in { Old(c) : c \in DOMAIN b } |-> Had(n) + Had([n EXCEPT !.stale = FALSE])]

\* TraktScrobblerPlugin.unload; the calls suspended stay suspended
Unload ==
  /\ hostLoaded
  /\ hostLoaded' = FALSE
  /\ media' = FALSE
  /\ listening' = FALSE
  /\ state' = Idle
  /\ data' = NoData
  /\ error' = Undef
  /\ inflight' = Staled(inflight)
  /\ UNCHANGED <<access_token, tokensLoaded>>

\* -------------------------------------------------------------- scrobbling
\* TraktScrobblerPlugin._startScrobble up to its first await (line 273)
MutantStartScrobbleAnyInput(playbackState) ==
  /\ state' = Loading
  /\ error' = error
  /\ IF ~media
     THEN UNCHANGED <<data, inflight>>
     ELSE \E m \in Metadata :
            /\ data' = _getScrobbleData(m, _getProgress)
            /\ IF ScrobbleThrows
               THEN UNCHANGED inflight
               ELSE Spawn("report1", "start", data')

_startScrobble(playbackState) ==
  IF playbackState # PLAYING
  THEN UNCHANGED plugin
  ELSE /\ state' = Loading
       /\ error' = error
       /\ IF ~media
          THEN UNCHANGED <<data, inflight>>   \* this._media! is undefined: TypeError
          ELSE \E m \in Metadata :
                 /\ data' = _getScrobbleData(m, _getProgress)
                 /\ IF ScrobbleThrows
                    THEN UNCHANGED inflight
                    ELSE Spawn("report1", "start", data')

\* UpdateAction with an ended playback reported as a pause
MutantUpdateActionEndedPauses(playbackState) ==
  IF playbackState = PAUSED
  THEN (IF state # Paused THEN "pause" ELSE Undef)
  ELSE IF playbackState = PLAYING
  THEN (IF state # Started THEN "start" ELSE Undef)
  ELSE IF playbackState = ENDED
  THEN "pause"
  ELSE Undef

\* the action _updateScrobble picks (lines 376-386); Undef: none
UpdateAction(playbackState) ==
  IF playbackState = PAUSED
  THEN (IF state # Paused THEN "pause" ELSE Undef)
  ELSE IF playbackState = PLAYING
  THEN (IF state # Started THEN "start" ELSE Undef)
  ELSE IF playbackState = ENDED
  THEN "stop"
  ELSE Undef

\* TraktScrobblerPlugin._updateScrobble up to its await (line 388)
_updateScrobble(playbackState) ==
  /\ UNCHANGED <<state, error, data>>
  /\ IF ~data.defined \/ UpdateAction(playbackState) = Undef \/ ScrobbleThrows
     THEN UNCHANGED inflight
     ELSE Spawn("update", UpdateAction(playbackState), data)

\* the states in which _scrobble returns at once (lines 252-256)
MutantIgnoredNoLoading == {Error, NotFound, Scrobbled}
Ignored == {Error, NotFound, Scrobbled, Loading}

\* TraktScrobblerPlugin._scrobble
_scrobble(playbackState) ==
  IF state \in Ignored
  THEN UNCHANGED plugin
  ELSE IF state = Idle
  THEN _startScrobble(playbackState)
  ELSE _updateScrobble(playbackState)

\* TraktScrobblerPlugin._onPlaybackStateChange: the player dispatches a
\* playbackstatechange event to the registered listener
PlaybackStateChange(ps) ==
  /\ listening
  /\ _scrobble(ps)
  /\ WithinBounds
  /\ UNCHANGED host

\* ---- continuations of _startScrobble
\* the suspended call returns or throws without touching the plugin
Dies(c) == UNCHANGED <<state, error, data>> /\ Finish(c)

\* Adopt that keeps the request as it was guessed
MutantAdoptKeepsGuess(d, r) == d

\* lines 276-278: the response's movie/show/episode replace the request's
Adopt(d, r) ==
  [d EXCEPT !.movie = IF r.movie # Undef THEN r.movie ELSE @,
            !.show = IF r.show # Undef THEN r.show ELSE @,
            !.episode = IF r.episode.defined THEN r.episode ELSE @]

\* Lookup that searches without a title
MutantLookupWithoutTitle(c) ==
  IF ~data.defined
  THEN Dies(c)
  ELSE LET type == IF data.movie # Undef THEN "movie" ELSE "show"
       IN /\ UNCHANGED <<state, error, data>>
          /\ Await(c, "search", "search", type, data)

\* lines 285-298: the manual lookup starts with a search by title
Lookup(c) ==
  IF ~data.defined
  THEN Dies(c)                          \* this._data is undefined: TypeError
  ELSE LET type == IF data.movie # Undef THEN "movie" ELSE "show"
           title == IF type = "movie" THEN HasTitle(data.movie) ELSE HasTitle(data.show)
       IN IF ~title
          THEN Dies(c)                  \* 'No title set': return
          ELSE /\ UNCHANGED <<state, error, data>>
               /\ Await(c, "search", "search", type, data)

\* StartScrobbleResponse that falls back to the lookup on every error
MutantStartScrobbleResponseLooksUp(c, r) ==
  IF ~isError(r)
  THEN /\ state' = Started
       /\ error' = error
       /\ data' = IF data.defined THEN Adopt(data, r) ELSE data
       /\ Finish(c)
  ELSE Lookup(c)

\* lines 273-283: the optimistic report answers
StartScrobbleResponse(c, r) ==
  IF ~isError(r)
  THEN /\ state' = Started
       /\ error' = error
       /\ data' = IF data.defined THEN Adopt(data, r) ELSE data
       /\ Finish(c)
  ELSE IF r.status # "404"
  THEN _handleApiError(r) /\ data' = data /\ Finish(c)
  ELSE Lookup(c)

\* lines 359-360: the report is retried with the request as it is now
Retry(c, d) ==
  IF ScrobbleThrows
  THEN Finish(c)
  ELSE Await(c, "retry", "start", c.type, d)

\* SearchResponse that goes on with the first of several perfect matches
MutantSearchResponseTakesFirst(c, r) ==
  IF isError(r)
  THEN _handleApiError(r) /\ data' = data /\ Finish(c)
  ELSE IF ~r.array
  THEN Dies(c)                          \* searchResponse.filter is no function
  ELSE LET IsPerfect(h) == h.score = 1000
           perfectMatches == SelectSeq(r.hits, IsPerfect)
       IN IF Len(perfectMatches) = 0
          THEN state' = NotFound /\ UNCHANGED <<error, data>> /\ Finish(c)
          ELSE LET continueWith == perfectMatches[1].entity
               IN IF ~data.defined
                  THEN Dies(c)
                  ELSE IF c.type = "movie"
                  THEN /\ data' = [data EXCEPT !.movie = continueWith]
                       /\ UNCHANGED <<state, error>>
                       /\ Retry(c, data')
                  ELSE /\ data' = [data EXCEPT !.show = continueWith]
                       /\ UNCHANGED <<state, error>>
                       /\ IF continueWith = Undef \/ ~data.episode.defined
                          THEN Finish(c)     \* show!.ids / episode!.season: TypeError
                          ELSE Await(c, "season", "season", c.type, data')

\* SearchResponse that goes on with the entity as it was guessed
MutantSearchResponseKeepsGuess(c, r) ==
  IF isError(r)
  THEN _handleApiError(r) /\ data' = data /\ Finish(c)
  ELSE IF ~r.array
  THEN Dies(c)                          \* searchResponse.filter is no function
  ELSE LET IsPerfect(h) == h.score = 1000
           perfectMatches == SelectSeq(r.hits, IsPerfect)
       IN IF Len(perfectMatches) # 1
          THEN state' = NotFound /\ UNCHANGED <<error, data>> /\ Finish(c)
          ELSE LET continueWith == IF c.type = "movie" THEN data.movie ELSE data.show
               IN IF ~data.defined
                  THEN Dies(c)
                  ELSE IF c.type = "movie"
                  THEN /\ data' = [data EXCEPT !.movie = continueWith]
                       /\ UNCHANGED <<state, error>>
                       /\ Retry(c, data')
                  ELSE /\ data' = [data EXCEPT !.show = continueWith]
                       /\ UNCHANGED <<state, error>>
                       /\ IF continueWith = Undef \/ ~data.episode.defined
                          THEN Finish(c)     \* show!.ids / episode!.season: TypeError
                          ELSE Await(c, "season", "season", c.type, data')

\* lines 298-331: the search answers
SearchResponse(c, r) ==
  IF isError(r)
  THEN _handleApiError(r) /\ data' = data /\ Finish(c)
  ELSE IF ~r.array
  THEN Dies(c)                          \* searchResponse.filter is no function
  ELSE LET IsPerfect(h) == h.score = 1000
           perfectMatches == SelectSeq(r.hits, IsPerfect)
       IN IF Len(perfectMatches) # 1
          THEN state' = NotFound /\ UNCHANGED <<error, data>> /\ Finish(c)
          ELSE LET continueWith == perfectMatches[1].entity
               IN IF ~data.defined
                  THEN Dies(c)
                  ELSE IF c.type = "movie"
                  THEN /\ data' = [data EXCEPT !.movie = continueWith]
                       /\ UNCHANGED <<state, error>>
                       /\ Retry(c, data')
                  ELSE /\ data' = [data EXCEPT !.show = continueWith]
                       /\ UNCHANGED <<state, error>>
                       /\ IF continueWith = Undef \/ ~data.episode.defined
                          THEN Finish(c)     \* show!.ids / episode!.season: TypeError
                          ELSE Await(c, "season", "season", c.type, data')

\* MatchEpisode without the fallback to number_abs
MutantMatchEpisodeByNumberOnly(episodes, episodeNumber) ==
  LET ByNumber(e) == e.number = episodeNumber
      numberMatch == SelectSeq(episodes, ByNumber)
  IN IF Len(numberMatch) > 1 THEN <<Error, NoEpisode>>
     ELSE IF Len(numberMatch) = 1 THEN <<"found", numberMatch[1]>>
     ELSE <<NotFound, NoEpisode>>

\* MatchEpisode that takes the first of several matches
MutantMatchEpisodeTakesFirst(episodes, episodeNumber) ==
  LET ByNumber(e) == e.number = episodeNumber
      ByAbs(e) == e.number_abs = episodeNumber
      numberMatch == SelectSeq(episodes, ByNumber)
      absMatch == SelectSeq(episodes, ByAbs)
  IN IF Len(numberMatch) >= 1 THEN <<"found", numberMatch[1]>>
     ELSE IF Len(absMatch) >= 1 THEN <<"found", absMatch[1]>>
     ELSE <<NotFound, NoEpisode>>

\* lines 333-357: the episode of the season list the request asks for;
\* the result is <<outcome, episode>>
MatchEpisode(episodes, episodeNumber) ==
  LET ByNumber(e) == e.number = episodeNumber
      ByAbs(e) == e.number_abs = episodeNumber
      numberMatch == SelectSeq(episodes, ByNumber)
      absMatch == SelectSeq(episodes, ByAbs)
  IN IF Len(numberMatch) > 1 THEN <<Error, NoEpisode>>
     ELSE IF Len(numberMatch) = 1 THEN <<"found", numberMatch[1]>>
     ELSE IF Len(absMatch) > 1 THEN <<Error, NoEpisode>>
     ELSE IF Len(absMatch) = 1 THEN <<"found", absMatch[1]>>
     ELSE <<NotFound, NoEpisode>>

\* lines 322-357: the season's episode list answers
SeasonResponse(c, r) ==
  IF isError(r)
  THEN /\ IF r.status = "404"
          THEN state' = NotFound /\ error' = error
          ELSE _handleApiError(r)
       /\ data' = data
       /\ Finish(c)
  ELSE IF ~r.array \/ ~data.defined \/ ~data.episode.defined
  THEN Dies(c)                          \* TypeError
  ELSE LET m == MatchEpisode(r.episodes, data.episode.number)
       IN IF m[1] # "found"
          THEN state' = m[1] /\ UNCHANGED <<error, data>> /\ Finish(c)
          ELSE /\ data' = [data EXCEPT !.episode = m[2]]
               /\ UNCHANGED <<state, error>>
               /\ Retry(c, data')

\* RetryResponse that retries the report once more on a 404
MutantRetryResponseRetriesAgain(c, r) ==
  IF isError(r) /\ r.status = "404"
  THEN UNCHANGED <<state, error, data>> /\ Retry(c, data)
  ELSE /\ IF ~isError(r)
          THEN state' = Started /\ error' = error
          ELSE _handleApiError(r)
       /\ data' = data
       /\ Finish(c)

\* lines 360-368: the retried report answers
RetryResponse(c, r) ==
  /\ IF ~isError(r)
     THEN state' = Started /\ error' = error
     ELSE IF r.status = "404"
     THEN state' = NotFound /\ error' = error
     ELSE _handleApiError(r)
  /\ data' = data
  /\ Finish(c)

\* ---- continuation of _updateScrobble
\* StateOfAction with the branches of `start` and `pause` swapped
MutantStateOfActionSwapped(action) ==
  IF action = "start" THEN Paused
  ELSE IF action = "pause" THEN Started
  ELSE IF action = "scrobble" THEN Scrobbled
  ELSE Error

\* the engine state a successful report's response.action names (397-406)
StateOfAction(action) ==
  IF action = "start" THEN Started
  ELSE IF action = "pause" THEN Paused
  ELSE IF action = "scrobble" THEN Scrobbled
  ELSE Error

\* lines 388-407: the report of a tracking state answers
UpdateScrobbleResponse(c, r) ==
  /\ IF isError(r)
     THEN IF r.status = "409"
          THEN state' = Scrobbled /\ error' = error
          ELSE _handleApiError(r)
     ELSE state' = StateOfAction(r.action) /\ error' = error
  /\ data' = data
  /\ Finish(c)

\* ---------------------------------------------------------------- history
\* the requests a step issues: the calls suspended at an await after it
\* that were not suspended there before
Issued ==
  { n \in BagToSet(inflight') :
      CopiesIn(n, inflight') >
        CopiesIn(n, inflight)
          + (IF n.stale THEN CopiesIn([n EXCEPT !.stale = FALSE], inflight) ELSE 0) }

\* the awaits of _startScrobble
Resolving == {"report1", "search", "season", "retry"}

\* the /scrobble actions
Reports == {"start", "pause", "stop"}

\* the call c belongs to the media item that is loaded now
Current(c) == ~c.stale

\* `track` is the set of the history variables a specification keeps
TrackLastReport(track) ==
  lastReport' =
    IF "lastReport" \in track /\ \E n \in Issued : n.op \in Reports /\ Current(n)
    THEN (CHOOSE n \in Issued : n.op \in Reports /\ Current(n)).op
    ELSE lastReport

Track409(track, c, r) ==
  got409' = (got409 \/ ("got409" \in track /\ Current(c)
                          /\ c.co = "update" /\ r.status = "409"))

TrackDropped(track) ==
  dropped' = ("dropped" \in track /\ state = Loading)

\* answered keeps the answers to the resolution of the loaded media item
TrackAnswered(track, c, r) ==
  answered' = IF "answered" \in track /\ Current(c) /\ c.co # "update"
              THEN [co |-> c.co, type |-> c.type, reply |-> r]
              ELSE NoAnswer

\* calls logs the requests of the resolution
TrackCalls(track) ==
  calls' = IF "calls" \in track /\ \E n \in Issued : n.co \in Resolving
           THEN Append(calls, (CHOOSE n \in Issued : n.co \in Resolving).op)
           ELSE calls

\* what an answer says: the action of a parsed body, the status of an error
Reply(r) == IF isError(r) THEN r.status ELSE r.action

\* order queues the reports of the tracking states as they are issued
Queued(op) == [op |-> op, overtaken |-> FALSE]

TrackOrderIssued(track) ==
  /\ order' = IF "order" \in track /\ \E n \in Issued : n.co = "update"
              THEN Append(order, Queued((CHOOSE n \in Issued : n.co = "update").op))
              ELSE order
  /\ late' = FALSE

\* the queue q without its entry i, the entries before i marked overtaken
Overtake(q, i) ==
  [j \in 1..(Len(q) - 1) |->
     IF j < i THEN [q[j] EXCEPT !.overtaken = TRUE] ELSE q[j + 1]]

\* the answer to the report c is the answer to one of the queued reports
\* that carry c's action; late tells whether a report issued after it was
\* answered before
TrackOrderAnswered(track, c) ==
  IF "order" \in track /\ Current(c) /\ c.co = "update"
  THEN \E i \in DOMAIN order :
         /\ order[i].op = c.op
         /\ order' = Overtake(order, i)
         /\ late' = order[i].overtaken
  ELSE UNCHANGED order /\ late' = FALSE

Unscripted == UNCHANGED <<script, calls, replies>>

\* ------------------------------------------------------------------- steps
\* the constructor's _loadTokens() finishes
TokensLoaded ==
  /\ LoadTokens
  /\ dropped' = FALSE
  /\ answered' = NoAnswer
  /\ UNCHANGED <<lastReport, got409>>
  /\ Unscripted
  /\ UNCHANGED <<manager, client, refreshes, player, tracker, bootstrap>> /\ did' = NoStep /\ input' = NoInput
  /\ UNCHANGED <<order, late>>

\* the host loads a media item
OnLoad ==
  /\ Load
  /\ dropped' = FALSE
  /\ answered' = NoAnswer
  /\ UNCHANGED <<lastReport, got409>>
  /\ Unscripted
  /\ UNCHANGED <<manager, client, refreshes, player, tracker, bootstrap>> /\ did' = NoStep /\ input' = NoInput
  /\ UNCHANGED <<order, late>>

\* the host unloads the media item
OnUnload ==
  /\ Unload
  /\ got409' = FALSE
  /\ lastReport' = Undef
  /\ dropped' = FALSE
  /\ answered' = NoAnswer
  /\ Unscripted
  /\ UNCHANGED <<manager, client, refreshes, player, tracker, bootstrap>> /\ did' = NoStep /\ input' = NoInput
  /\ order' = <<>> /\ late' = FALSE

\* the player dispatches a playbackstatechange event
PlaybackStateChanged(track) ==
  \E ps \in PlaybackState :
    /\ PlaybackStateChange(ps)
    /\ TrackLastReport(track)
    /\ TrackDropped(track)
    /\ answered' = NoAnswer
    /\ TrackCalls(track)
    /\ UNCHANGED <<got409, script, replies>>
    /\ UNCHANGED <<manager, client, refreshes, player, tracker, bootstrap>> /\ did' = NoStep
    /\ TrackOrderIssued(track)
    /\ input' = IF "input" \in track THEN [ps |-> ps, met |-> state] ELSE NoInput

\* what every step of the service answering the call c with r leaves alone
Answered(track, c, r) ==
  /\ UNCHANGED host
  /\ TrackLastReport(track)
  /\ Track409(track, c, r)
  /\ TrackAnswered(track, c, r)
  /\ TrackCalls(track)
  /\ dropped' = FALSE
  /\ UNCHANGED <<script, replies>>
  /\ UNCHANGED <<manager, client, refreshes, player, tracker, bootstrap>> /\ did' = NoStep /\ input' = NoInput
  /\ TrackOrderAnswered(track, c)

\* the service answers the request a suspended call awaits
StartScrobbleResponded(track) ==
  \E c \in Suspended :
    /\ c.co = "report1"
    /\ \E r \in ScrobbleResults(c.kind) :
         StartScrobbleResponse(c, r) /\ Answered(track, c, r)

SearchResponded(track) ==
  \E c \in Suspended :
    /\ c.co = "search"
    /\ \E r \in SearchResults : SearchResponse(c, r) /\ Answered(track, c, r)

SeasonResponded(track) ==
  \E c \in Suspended :
    /\ c.co = "season"
    /\ \E r \in SeasonResults : SeasonResponse(c, r) /\ Answered(track, c, r)

RetryResponded(track) ==
  \E c \in Suspended :
    /\ c.co = "retry"
    /\ \E r \in ScrobbleAcks :
         RetryResponse(c, r) /\ Answered(track, c, r)

UpdateScrobbleResponded(track) ==
  \E c \in Suspended :
    /\ c.co = "update"
    /\ \E r \in ScrobbleAcks :
         UpdateScrobbleResponse(c, r) /\ Answered(track, c, r)

\* ---------------------------------------------------------- specifications
Step(track) ==
  \/ TokensLoaded
  \/ OnLoad
  \/ OnUnload
  \/ PlaybackStateChanged(track)
  \/ StartScrobbleResponded(track)
  \/ SearchResponded(track)
  \/ SeasonResponded(track)
  \/ RetryResponded(track)
  \/ UpdateScrobbleResponded(track)

\* The plugin under every order of loads, unloads, events and answers.
Next == Step({})

Spec == Init /\ [][Next]_vars

\* The same, keeping the history variables lastReport and got409.
NextHistory == Step({"lastReport", "got409"})

SpecHistory == Init /\ [][NextHistory]_vars

\* The same, keeping the history variable dropped.
NextDropped == Step({"dropped"})

SpecDropped == Init /\ [][NextDropped]_vars

\* The plugin's loads, unloads, events and reports, without the manual
\* lookup, keeping the history variable input.
NextInputs ==
  \/ TokensLoaded
  \/ OnLoad
  \/ OnUnload
  \/ PlaybackStateChanged({"input"})
  \/ StartScrobbleResponded({"input"})
  \/ UpdateScrobbleResponded({"input"})

SpecInputs == Init /\ [][NextInputs]_vars

\* The same, keeping the history variable answered.
NextAnswers == Step({"answered"})

SpecAnswers == Init /\ [][NextAnswers]_vars

\* One media item, loaded and not unloaded, keeping the history variables
\* answered and calls.
NextResolver ==
  \/ TokensLoaded
  \/ OnLoad
  \/ PlaybackStateChanged({"answered", "calls"})
  \/ StartScrobbleResponded({"answered", "calls"})
  \/ SearchResponded({"answered", "calls"})
  \/ SeasonResponded({"answered", "calls"})
  \/ RetryResponded({"answered", "calls"})
  \/ UpdateScrobbleResponded({"answered", "calls"})

SpecResolver == Init /\ [][NextResolver]_vars

\* One media item, loaded and not unloaded, without the manual lookup,
\* keeping the history variables order and late.
NextOrder ==
  \/ TokensLoaded
  \/ OnLoad
  \/ PlaybackStateChanged({"order"})
  \/ StartScrobbleResponded({"order"})
  \/ UpdateScrobbleResponded({"order"})

SpecOrder == Init /\ [][NextOrder]_vars

\* the length of the media item, in the unit of getCurrentTime()
Duration == 2

\* the playback goes on: getCurrentTime() advances
TimeUpdate ==
  /\ currentTime < duration
  /\ currentTime' = currentTime + 1
  /\ UNCHANGED duration

Played ==
  TimeUpdate /\ UNCHANGED <<host, plugin, manager, client, history, audit, tracker, bootstrap>>

\* One media item of a known length, or of none, loaded and played.
InitProgress ==
  /\ access_token = FALSE
  /\ tokensLoaded = FALSE
  /\ hostLoaded = FALSE
  /\ media = FALSE
  /\ listening = FALSE
  /\ state = Idle
  /\ error = Undef
  /\ data = NoData
  /\ inflight = EmptyBag
  /\ lastReport = Undef
  /\ got409 = FALSE
  /\ dropped = FALSE
  /\ answered = NoAnswer
  /\ script = 0
  /\ calls = <<>>
  /\ replies = <<>>
  /\ refresh_token = FALSE
  /\ expires = Undef
  /\ authentication_state = Undef
  /\ stored = NoTokens
  /\ query = NoQuery
  /\ pending = EmptyBag
  /\ did = NoStep
  /\ refreshes = 0
  /\ request = NoRequest
  /\ returned = NotReturned
  /\ input = NoInput
  /\ order = <<>>
  /\ late = FALSE
  /\ _intervals = <<>>
  /\ _elapsedTime = 0
  /\ _lastTime = 0
  /\ _callCount = 0
  /\ _handler = FALSE
  /\ event = Undef
  /\ _tracking = NoTracker
  /\ trackers = <<>>
  /\ loading = 0
  /\ _initialVideoDetail = FALSE
  /\ _currentVideoDetail = FALSE
  /\ currentTime = 0
  /\ duration \in {0, Duration}

NextProgress ==
  \/ TokensLoaded
  \/ OnLoad
  \/ Played
  \/ PlaybackStateChanged({})
  \/ StartScrobbleResponded({})
  \/ SearchResponded({})
  \/ SeasonResponded({})
  \/ RetryResponded({})
  \/ UpdateScrobbleResponded({})

SpecProgress == InitProgress /\ [][NextProgress]_vars

\* The same where every request is answered in the end: the service answers,
\* or the request fails, and the awaiting call resumes.
EveryCallReturns ==
  /\ WF_vars(StartScrobbleResponded({}))
  /\ WF_vars(SearchResponded({}))
  /\ WF_vars(SeasonResponded({}))
  /\ WF_vars(RetryResponded({}))
  /\ WF_vars(UpdateScrobbleResponded({}))

SpecLive == Init /\ [][Next]_vars /\ EveryCallReturns

\* The scenario of one media item: the inputs Playing, Paused, Playing,
\* Ended, each delivered once the calls before it are answered; the
\* optimistic report succeeds; calls and replies log the reports issued and
\* what the service answered.
Inputs == <<PLAYING, PAUSED, PLAYING, ENDED>>

ScenarioInput ==
  /\ script < Len(Inputs)
  /\ inflight = EmptyBag
  /\ PlaybackStateChange(Inputs[script + 1])
  /\ script' = script + 1
  /\ calls' = IF Issued = {} THEN calls
              ELSE Append(calls, (CHOOSE n \in Issued : TRUE).op)
  /\ UNCHANGED <<lastReport, got409, dropped, answered, replies>>
  /\ UNCHANGED <<manager, client, refreshes, player, tracker, bootstrap>> /\ did' = NoStep /\ input' = NoInput
  /\ UNCHANGED <<order, late>>

ScenarioAnswered(r) ==
  /\ UNCHANGED host
  /\ replies' = Append(replies, Reply(r))
  /\ UNCHANGED <<lastReport, got409, dropped, answered, script, calls>>
  /\ UNCHANGED <<manager, client, refreshes, player, tracker, bootstrap>> /\ did' = NoStep /\ input' = NoInput
  /\ UNCHANGED <<order, late>>

ScenarioStartResponded ==
  \E c \in Suspended :
    /\ c.co = "report1"
    /\ \E r \in ScrobbleSuccesses(c.kind) :
         StartScrobbleResponse(c, r) /\ ScenarioAnswered(r)

ScenarioUpdateResponded ==
  \E c \in Suspended :
    /\ c.co = "update"
    /\ \E r \in ScrobbleAcks :
         UpdateScrobbleResponse(c, r) /\ ScenarioAnswered(r)

NextScenario ==
  \/ TokensLoaded
  \/ OnLoad
  \/ ScenarioInput
  \/ ScenarioStartResponded
  \/ ScenarioUpdateResponded

SpecScenario == Init /\ [][NextScenario]_vars

\* ----------------------------------------------------------- token manager
\* this._tokens
_tokens ==
  [access_token |-> access_token, refresh_token |-> refresh_token,
   expires |-> expires, authentication_state |-> authentication_state]

\* this._tokens = t
SetTokens(t) ==
  /\ access_token' = t.access_token
  /\ refresh_token' = t.refresh_token
  /\ expires' = t.expires
  /\ authentication_state' = t.authentication_state

\* the tokens TraktApi._exchange makes of a 2xx body
Granted(refresh) ==
  [access_token |-> TRUE, refresh_token |-> refresh, expires |-> "future",
   authentication_state |-> Undef]

\* What the request of TraktApi._exchange comes to: a 2xx response whose
\* body parses to an object with the fields of body (its refresh_token or
\* its every field may be missing), or a failure (ok = FALSE): the post is
\* rejected, or JSON.parse throws.
TokenResponses ==
  { [ok |-> TRUE, body |-> b] : b \in {Granted(TRUE), Granted(FALSE), NoTokens} }
  \cup { [ok |-> FALSE, body |-> NoTokens] }

\* TraktApi._exchange from the outcome o of its request on
MutantExchangeGrantsOnFailure(o) == Granted(TRUE)

_exchange(o) ==
  IF o.ok
  THEN [access_token |-> o.body.access_token,
        refresh_token |-> o.body.refresh_token,
        expires |-> o.body.expires,
        authentication_state |-> Undef]
  ELSE NoTokens

\* What TraktApi._exchange returns: the tokens of the body, whose
\* refresh_token or whose every field may be missing, and {} when the
\* request fails.
ExchangeResults == { _exchange(o) : o \in TokenResponses }

\* a suspended call of a token method, named by the await it is at
TokenCall(co) == SetToBag({[co |-> co]})

Awaits(co) == [co |-> co] \in BagToSet(pending)

\* the test of _loadTokens: the record t has expired
Expired(t) == t.expires = "past"

\* TraktApi._refresh_token asks the token endpoint when the record t holds
\* a refresh token, and returns {} without a request when it holds none
MutantRefreshTokenAlwaysAsks(t) == TRUE

_refresh_token(t) == t.refresh_token

\* TraktApi._exchange_code up to its await, this._tokens being t: the call
\* it suspends at the token endpoint, none when the query's state is not
\* the record's authentication_state
MutantExchangeCodeUnchecked(q, t) == TokenCall("code")

_exchange_code(q, t) ==
  IF q.state # t.authentication_state THEN EmptyBag ELSE TokenCall("code")

\* TraktApi.checkAuthenticationResult up to its await
checkAuthenticationResult(q, t) ==
  IF ~q.code \/ q.state = Undef THEN EmptyBag ELSE _exchange_code(q, t)

\* TraktScrobblerPlugin._onAuthenticationChange, run by the dispatch of an
\* AuthenticationChangeEvent while this._tokens is t: the calls it suspends
_onAuthenticationChange(authenticated, t) ==
  IF authenticated THEN EmptyBag ELSE checkAuthenticationResult(query, t)

\* TraktApi._loadTokens from the answer of storage.get on
_loadTokens ==
  /\ Awaits("get")
  /\ LET rest == pending (-) TokenCall("get")
     IN IF Expired(stored)
        THEN /\ tokensLoaded' = FALSE
             /\ IF _refresh_token(stored)
                THEN /\ SetTokens(stored)
                     /\ pending' = rest (+) TokenCall("refresh")
                     /\ UNCHANGED stored
                ELSE /\ SetTokens(NoTokens)
                     /\ stored' = NoTokens
                     /\ pending' = rest (+) TokenCall("set")
        ELSE /\ SetTokens(stored)
             /\ tokensLoaded' = TRUE
             /\ pending' = rest (+) _onAuthenticationChange(stored.access_token, stored)
             /\ UNCHANGED stored
  /\ UNCHANGED query

\* TraktApi._loadTokens from the answer r of the refresh on
RefreshResponse(r) ==
  /\ Awaits("refresh")
  /\ SetTokens(r)
  /\ stored' = r
  /\ pending' = (pending (-) TokenCall("refresh")) (+) TokenCall("set")
  /\ UNCHANGED <<tokensLoaded, query>>

\* TraktApi._loadTokens from the answer of storage.set on
SetResponse ==
  /\ Awaits("set")
  /\ tokensLoaded' = TRUE
  /\ pending' = (pending (-) TokenCall("set"))
                  (+) _onAuthenticationChange(isAuthenticated, _tokens)
  /\ UNCHANGED <<access_token, refresh_token, expires, authentication_state,
                 stored, query>>

\* TraktApi.authenticate up to its await, s being the state generated
authenticate(s) ==
  /\ authentication_state' = s
  /\ stored' = [_tokens EXCEPT !.authentication_state = s]
  /\ pending' = pending (+) TokenCall("authenticate")
  /\ UNCHANGED <<access_token, refresh_token, expires, tokensLoaded, query>>

\* the time that passes until a page loads may take a record past its expiry
Aged(t) ==
  {t} \cup IF t.expires = "future" THEN {[t EXCEPT !.expires = "past"]} ELSE {}

\* A page replaces the current one: its URL has the query q, its plugin and
\* its TraktApi are new, and the constructor calls _loadTokens.
PageLoad(q) ==
  /\ SetTokens(NoTokens)
  /\ tokensLoaded' = FALSE
  /\ hostLoaded' = FALSE
  /\ media' = FALSE
  /\ listening' = FALSE
  /\ state' = Idle
  /\ error' = Undef
  /\ data' = NoData
  /\ inflight' = EmptyBag
  /\ query' = q
  /\ pending' = TokenCall("get")
  /\ stored' \in Aged(stored)

\* TraktApi.authenticate from the answer of storage.set on: the browser
\* leaves for the authorization page
AuthenticateResponse(q) ==
  /\ Awaits("authenticate")
  /\ PageLoad(q)

\* TraktApi._exchange_code and checkAuthenticationResult from the answer r
\* of the code exchange on
ExchangeCodeResponse(r) ==
  /\ Awaits("code")
  /\ SetTokens(r)
  /\ IF r.access_token
     THEN stored' = r /\ query' = NoQuery
     ELSE UNCHANGED <<stored, query>>
  /\ pending' = pending (-) TokenCall("code")
  /\ UNCHANGED tokensLoaded

\* TraktApi._revoke_token up to its await: the call it suspends
MutantRevokeTokenAlwaysAsks == TokenCall("revoke")

_revoke_token == IF ~access_token THEN EmptyBag ELSE TokenCall("revoke")

\* TraktApi.disconnect
MutantDisconnectKeepsRecord ==
  /\ pending' = pending (+) _onAuthenticationChange(FALSE, _tokens)
                        (+) _revoke_token
  /\ UNCHANGED <<access_token, refresh_token, expires, authentication_state,
                 tokensLoaded, stored, query>>

disconnect ==
  /\ stored' = NoTokens
  /\ pending' = pending (+) _onAuthenticationChange(FALSE, _tokens)
                        (+) _revoke_token
  /\ UNCHANGED <<access_token, refresh_token, expires, authentication_state,
                 tokensLoaded, query>>

\* TraktApi._revoke_token from the answer of the revoke on
RevokeResponse ==
  /\ Awaits("revoke")
  /\ pending' = pending (-) TokenCall("revoke")
  /\ UNCHANGED <<access_token, refresh_token, expires, authentication_state,
                 tokensLoaded, stored, query>>

\* the model keeps at most MaxPending token calls suspended
PendingWithinBounds == BagCardinality(pending') <= MaxPending

\* the refresh-token requests the step issues
RefreshesIssued ==
  IF CopiesIn([co |-> "refresh"], pending') > CopiesIn([co |-> "refresh"], pending)
  THEN 1 ELSE 0

\* what a step of a token method within one page leaves alone, and what the
\* history variables keep of it
TokenStep(op, ok) ==
  /\ PendingWithinBounds
  /\ did' = [op |-> op, ok |-> ok]
  /\ refreshes' = refreshes + RefreshesIssued
  /\ UNCHANGED <<hostLoaded, media, listening, plugin, client, history, player, tracker, bootstrap>>

\* what a step that loads a page keeps in the history variables
PageStep(op) ==
  /\ did' = [op |-> op, ok |-> TRUE]
  /\ refreshes' = 0
  /\ UNCHANGED <<client, history, player, tracker, bootstrap>>

TokensGot == _loadTokens /\ TokenStep("get", TRUE)

RefreshResponded ==
  \E o \in TokenResponses :
    RefreshResponse(_exchange(o)) /\ TokenStep("refresh", o.ok)

TokensSet == SetResponse /\ TokenStep("set", TRUE)

Authenticate == \E s \in States : authenticate(s) /\ TokenStep("authenticate", TRUE)

Navigated == \E q \in Queries : AuthenticateResponse(q) /\ PageStep("navigate")

ExchangeCodeResponded ==
  \E o \in TokenResponses :
    ExchangeCodeResponse(_exchange(o)) /\ TokenStep("code", o.ok)

Disconnect == disconnect /\ TokenStep("disconnect", TRUE)

\* the revoke request succeeds or fails
RevokeResponded == \E ok \in BOOLEAN : RevokeResponse /\ TokenStep("revoke", ok)

\* the user reloads the page or opens another
Reloaded == \E q \in Queries : PageLoad(q) /\ PageStep("reload")

\* The token methods of TraktApi under every order of calls, answers and
\* page loads, with the plugin's load and the player's events.
InitTokens ==
  /\ access_token = FALSE
  /\ tokensLoaded = FALSE
  /\ hostLoaded = FALSE
  /\ media = FALSE
  /\ listening = FALSE
  /\ state = Idle
  /\ error = Undef
  /\ data = NoData
  /\ inflight = EmptyBag
  /\ lastReport = Undef
  /\ got409 = FALSE
  /\ dropped = FALSE
  /\ answered = NoAnswer
  /\ script = 0
  /\ calls = <<>>
  /\ replies = <<>>
  /\ refresh_token = FALSE
  /\ expires = Undef
  /\ authentication_state = Undef
  /\ stored = NoTokens
  /\ query = NoQuery
  /\ pending = TokenCall("get")
  /\ did = NoStep
  /\ refreshes = 0
  /\ request = NoRequest
  /\ returned = NotReturned
  /\ input = NoInput
  /\ order = <<>>
  /\ late = FALSE
  /\ _intervals = <<>>
  /\ _elapsedTime = 0
  /\ _lastTime = 0
  /\ _callCount = 0
  /\ _handler = FALSE
  /\ event = Undef
  /\ _tracking = NoTracker
  /\ trackers = <<>>
  /\ loading = 0
  /\ _initialVideoDetail = FALSE
  /\ _currentVideoDetail = FALSE
  /\ currentTime = 0
  /\ duration = 0

NextTokens ==
  \/ TokensGot
  \/ RefreshResponded
  \/ TokensSet
  \/ Authenticate
  \/ Navigated
  \/ ExchangeCodeResponded
  \/ Disconnect
  \/ RevokeResponded
  \/ Reloaded
  \/ OnLoad
  \/ PlaybackStateChanged({})

SpecTokens == InitTokens /\ [][NextTokens]_vars

\* --------------------------------------------------------------- API client
\* What the catch of an operation may receive: a failed response, of a
\* status the table lists or of another, or an Error.
Thrown ==
  { Response(st, t) : st \in { p[1] : p \in TraktErrorCodes } \cup UnknownStatuses,
                      t \in StatusTexts }
  \cup {NoResponse}

\* What the request of an operation comes to: the http client resolves
\* with a response whose body JSON.parse accepts or throws on, or it
\* rejects with a value of Thrown.
Outcomes ==
  { [resolved |-> TRUE, parses |-> b, thrown |-> NoResponse] : b \in BOOLEAN }
  \cup { [resolved |-> FALSE, parses |-> FALSE, thrown |-> t] : t \in Thrown }

Operations == {"search", "seasons", "season", "scrobble"}

Requests ==
  { [op |-> op, resolved |-> o.resolved, parses |-> o.parses, thrown |-> o.thrown] :
      op \in Operations, o \in Outcomes }

\* the parsed body: an object that is no ITraktError
Payload == [status |-> Undef, error |-> Undef]

\* the try and catch of search, seasons, season and scrobble: the parsed
\* body, or _getError of what was caught, JSON.parse's SyntaxError included
Try(o) ==
  IF o.resolved /\ o.parses
  THEN Payload
  ELSE _getError(IF o.resolved THEN NoResponse ELSE o.thrown)

Return(v) == [done |-> TRUE, threw |-> FALSE, value |-> v]

Throw == [done |-> TRUE, threw |-> TRUE, value |-> Payload]

\* TraktApi.search
search ==
  /\ request.op = "search"
  /\ ~returned.done
  /\ returned' = Return(Try(request))

\* TraktApi.seasons
seasons ==
  /\ request.op = "seasons"
  /\ ~returned.done
  /\ returned' = Return(Try(request))

\* TraktApi.season
season ==
  /\ request.op = "season"
  /\ ~returned.done
  /\ returned' = Return(Try(request))

\* TraktApi.scrobble
scrobble ==
  /\ request.op = "scrobble"
  /\ ~returned.done
  /\ returned' = IF ScrobbleThrows THEN Throw ELSE Return(Try(request))

\* what a step of the API client leaves alone
ClientStep == UNCHANGED <<request, host, plugin, manager, history, audit, player, tracker, bootstrap>>

SearchReturned == search /\ ClientStep

SeasonsReturned == seasons /\ ClientStep

SeasonReturned == season /\ ClientStep

ScrobbleReturned == scrobble /\ ClientStep

\* the caller calls the next operation
Requested ==
  /\ returned.done
  /\ request' \in Requests
  /\ returned' = NotReturned
  /\ UNCHANGED <<host, plugin, manager, history, audit, player, tracker, bootstrap>>

\* The operations of the API client, one call at a time, each over every
\* outcome of its request, with and without an access token.
InitClient ==
  /\ access_token \in BOOLEAN
  /\ tokensLoaded = TRUE
  /\ hostLoaded = FALSE
  /\ media = FALSE
  /\ listening = FALSE
  /\ state = Idle
  /\ error = Undef
  /\ data = NoData
  /\ inflight = EmptyBag
  /\ lastReport = Undef
  /\ got409 = FALSE
  /\ dropped = FALSE
  /\ answered = NoAnswer
  /\ script = 0
  /\ calls = <<>>
  /\ replies = <<>>
  /\ refresh_token = FALSE
  /\ expires = Undef
  /\ authentication_state = Undef
  /\ stored = NoTokens
  /\ query = NoQuery
  /\ pending = EmptyBag
  /\ did = NoStep
  /\ refreshes = 0
  /\ request \in Requests
  /\ returned = NotReturned
  /\ input = NoInput
  /\ order = <<>>
  /\ late = FALSE
  /\ _intervals = <<>>
  /\ _elapsedTime = 0
  /\ _lastTime = 0
  /\ _callCount = 0
  /\ _handler = FALSE
  /\ event = Undef
  /\ _tracking = NoTracker
  /\ trackers = <<>>
  /\ loading = 0
  /\ _initialVideoDetail = FALSE
  /\ _currentVideoDetail = FALSE
  /\ currentTime = 0
  /\ duration = 0

NextClient ==
  \/ SearchReturned
  \/ SeasonsReturned
  \/ SeasonReturned
  \/ ScrobbleReturned
  \/ Requested

SpecClient == InitClient /\ [][NextClient]_vars

\* ------------------------------------------------- CrunchyrollTrackerPlugin
\* the times, in seconds, a timeupdate or seek event carries
MaxTime == 3

\* the pings of the model
MaxCalls == 3

\* media.getPingIntervals(): milliseconds, each positive
PingIntervals == {<<1000>>, <<2000, 1000>>, <<1000, 2000>>}

Min(a, b) == IF a <= b THEN a ELSE b

Max(a, b) == IF a >= b THEN a ELSE b

\* CrunchyrollTrackerPlugin.load
load(intervals) ==
  /\ ~_handler
  /\ _intervals' = intervals
  /\ _handler' = TRUE
  /\ UNCHANGED <<_elapsedTime, _lastTime, _callCount>>

\* CrunchyrollTrackerPlugin.unload
unload ==
  /\ _handler
  /\ _handler' = FALSE
  /\ UNCHANGED <<_intervals, _elapsedTime, _lastTime, _callCount>>

\* CrunchyrollTrackerPlugin._track: the ping goes out with the call count
_track(time, interval) ==
  /\ _elapsedTime' = 0
  /\ _callCount' = _callCount + 1

\* CrunchyrollTrackerPlugin._getInterval, in seconds
_getInterval ==
  _intervals[Min(_callCount, Len(_intervals) - 1) + 1] \div 1000

\* CrunchyrollTrackerPlugin._onPlaybackStateChange
_onPlaybackStateChange(ps) ==
  /\ _handler
  /\ IF ps # ENDED
     THEN UNCHANGED <<_elapsedTime, _callCount>>
     ELSE _track(duration, _getInterval)
  /\ UNCHANGED <<_intervals, _lastTime, _handler>>

\* CrunchyrollTrackerPlugin._onSeek
_onSeek(time) ==
  /\ _handler
  /\ _lastTime' = time
  /\ UNCHANGED <<_intervals, _elapsedTime, _callCount, _handler>>

\* _onTimeUpdate that takes the difference of the times as it is
MutantOnTimeUpdateSigned(time) ==
  LET dt == time - _lastTime
      elapsedTime == _elapsedTime + dt
      interval == _getInterval
  IN /\ _handler
     /\ _lastTime' = time
     /\ IF elapsedTime >= interval
        THEN _track(time, interval)
        ELSE _elapsedTime' = elapsedTime /\ UNCHANGED _callCount
     /\ UNCHANGED <<_intervals, _handler>>

\* CrunchyrollTrackerPlugin._onTimeUpdate
_onTimeUpdate(time) ==
  LET dt == Max(time - _lastTime, 0)
      elapsedTime == _elapsedTime + dt
      interval == _getInterval
  IN /\ _handler
     /\ _lastTime' = time
     /\ IF elapsedTime >= interval
        THEN _track(time, interval)
        ELSE _elapsedTime' = elapsedTime /\ UNCHANGED _callCount
     /\ UNCHANGED <<_intervals, _handler>>

\* what a step of the tracker plugin leaves alone; event names its handler
TrackerStep(e) ==
  /\ event' = e
  /\ _callCount' <= MaxCalls
  /\ UNCHANGED <<host, plugin, manager, client, history, audit, player, bootstrap>>

TrackerLoaded == \E intervals \in PingIntervals : load(intervals) /\ TrackerStep("load")

TrackerUnloaded == unload /\ TrackerStep("unload")

TrackerPlaybackStateChanged ==
  \E ps \in PlaybackState : _onPlaybackStateChange(ps) /\ TrackerStep("playbackstatechange")

Sought == \E time \in 0..MaxTime : _onSeek(time) /\ TrackerStep("seek")

TimeUpdated == \E time \in 0..MaxTime : _onTimeUpdate(time) /\ TrackerStep("timeupdate")

\* The tracker plugin, a singleton, under every order of loads, unloads
\* and events of the player.
NextTracker ==
  \/ TrackerLoaded
  \/ TrackerUnloaded
  \/ TrackerPlaybackStateChanged
  \/ Sought
  \/ TimeUpdated

SpecTracker == Init /\ [][NextTracker]_vars

\* ---------------------------------------------------------------- Bootstrap
\* the calls of loadVideo suspended at once, and the trackers created
MaxLoads == 3
MaxTrackers == 4

\* VideoTracker.dispose() on the tracker i of the list all
dispose(all, i) == [all EXCEPT ![i] = TRUE]

\* Bootstrap.loadVideo up to its await (lines 89-112)
loadVideo(useCurrentDocument) ==
  /\ trackers' = IF _tracking # NoTracker THEN dispose(trackers, _tracking)
                 ELSE trackers
  /\ _tracking' = NoTracker
  /\ _currentVideoDetail' = ~useCurrentDocument
  /\ loading' = loading + 1

\* Bootstrap.loadVideo from the answer of Video.fromDocument or
\* Video.fromUrl on (lines 110-139): found is false when the request is
\* rejected or the video has no stream, and the call throws
VideoResponse(found) ==
  /\ loading > 0
  /\ loading' = loading - 1
  /\ IF found
     THEN /\ trackers' = Append(trackers, FALSE)
          /\ _tracking' = Len(trackers) + 1
     ELSE UNCHANGED <<_tracking, trackers>>
  /\ UNCHANGED <<_initialVideoDetail, _currentVideoDetail>>

\* Bootstrap.run: the player is rendered and its ref callback loads the
\* video of the page (lines 194-230)
run ==
  /\ ~_initialVideoDetail
  /\ _initialVideoDetail' = TRUE
  /\ loadVideo(TRUE)

\* the click listener of a quality button (lines 167-178)
QualityClick ==
  IF ~_initialVideoDetail \/ _currentVideoDetail
  THEN UNCHANGED bootstrap
  ELSE loadVideo(TRUE) /\ UNCHANGED _initialVideoDetail

\* the nextvideo listener, in fullscreen (lines 211-216)
NextVideo ==
  /\ _initialVideoDetail
  /\ loadVideo(FALSE)
  /\ UNCHANGED _initialVideoDetail

\* what a step of Bootstrap leaves alone, within the bounds of the model
BootstrapStep ==
  /\ loading' <= MaxLoads
  /\ Len(trackers') <= MaxTrackers
  /\ UNCHANGED <<host, plugin, manager, client, history, audit, player, tracker>>

Ran == run /\ BootstrapStep

QualityClicked == QualityClick /\ BootstrapStep

NextVideoStarted == NextVideo /\ BootstrapStep

VideoResponded == \E found \in BOOLEAN : VideoResponse(found) /\ BootstrapStep

\* Bootstrap under every order of loads and answers.
NextBootstrap ==
  \/ Ran
  \/ QualityClicked
  \/ NextVideoStarted
  \/ VideoResponded

SpecBootstrap == Init /\ [][NextBootstrap]_vars

TypeOK ==
  /\ state \in ScrobbleState
  /\ access_token \in BOOLEAN
  /\ IsABag(inflight)
  /\ BagCardinality(inflight) <= MaxInFlight
  /\ _tokens \in [access_token : BOOLEAN, refresh_token : BOOLEAN,
                 expires : {Undef, "past", "future"},
                 authentication_state : {Undef} \cup States]
  /\ stored \in [access_token : BOOLEAN, refresh_token : BOOLEAN,
                 expires : {Undef, "past", "future"},
                 authentication_state : {Undef} \cup States]
  /\ query \in Queries
  /\ IsABag(pending)
  /\ BagCardinality(pending) <= MaxPending

\* ------------------------------------------------------------------ claims
Tracking == {Started, Paused}
Absorbing == {Scrobbled, NotFound, Error}

\* the number of calls of the loaded session that await a response
Outstanding ==
  LET current == { c \in Suspended : Current(c) }
  IN BagCardinality([c \in current |-> inflight[c]])

\* this step is an unload()
Unloads == hostLoaded /\ ~hostLoaded'

\* C1: between load() and unload() at most one call to the tracking service
\* is outstanding: an event delivered while a report or a resolution awaits
\* its response issues no new call.
C1_OneCallOutstanding == hostLoaded => Outstanding <= 1

\* C2: in the tracking states no `pause` report follows a `pause` report,
\* and no `start` report a `start` report, without another report between.
C2_NeverDoubleReports ==
  [][\A n \in Issued :
       (Current(n) /\ n.co = "update" /\ n.op \in {"pause", "start"})
         => lastReport # n.op]_vars

\* C3: once the state is Scrobbled, NotFound or Error, no event and no
\* pending response of the session changes it or issues a call, until
\* unload().
C3_Absorbing ==
  [][(/\ state \in Absorbing
      /\ hostLoaded /\ ~Unloads
      /\ \A c \in Suspended : Current(c))
       => (state' = state /\ Issued = {})]_vars

\* C4: where every call returns, a resolution that has entered Loading
\* leaves Loading in the end (for Started, Scrobbled, NotFound or Error,
\* or for Idle when the media is unloaded first).
C4_NeverStalls == (state = Loading) ~> (state # Loading)

\* C5: a step taken in state Loading that answers no call and is no load()
\* or unload(), which is the delivery of a playback-state input, issues no
\* call and leaves the state, the error and the request of the pending
\* resolution as they are.
C5_DroppedEvent ==
  [][(state = Loading /\ UNCHANGED host /\ inflight \sqsubseteq inflight')
       => UNCHANGED plugin]_vars

\* an input has just been dropped while the resolution awaits a response
C5_Witness ==
  /\ dropped
  /\ state = Loading
  /\ \E c \in Suspended : Current(c) /\ c.co \in Resolving

\* C6: a response that belongs to an unloaded session changes neither
\* the state nor the request data nor the error message, before and after
\* a later load(): a step that resumes a stale call leaves them alone.
C6_StaleDiscarded ==
  [][(\E c \in Suspended :
        c.stale /\ CopiesIn(c, inflight') < CopiesIn(c, inflight))
       => UNCHANGED <<state, error, data>>]_vars

\* C7: unload() in Started or Paused issues exactly one `stop` report;
\* unload() in any other state issues no call.
C7_UnloadStops ==
  [][Unloads =>
       IF state \in Tracking
       THEN Cardinality(Issued) = 1 /\ \A n \in Issued : n.op = "stop"
       ELSE Issued = {}]_vars

\* the scenario has run: every input is delivered and every call answered
ScenarioDone == script = Len(Inputs) /\ inflight = EmptyBag

\* the actions a successful response names that _updateScrobble knows
KnownActions == {"start", "pause", "scrobble"}

\* the action the service names when it records a report as asked
AckOf(op) == IF op = "stop" THEN "scrobble" ELSE op

Last(seq) == seq[Len(seq)]

StopAnswered ==
  /\ ScenarioDone
  /\ calls # <<>> /\ Last(calls) = "stop"
  /\ Len(replies) = Len(calls)
  /\ Last(replies) \in KnownActions

C10_SilentAfter409 ==
  [][got409 => \A n \in Issued : ~(Current(n) /\ n.op \in Reports)]_vars

\* the last step resumed the resolution at the await co
Resumed(co) == answered.co = co

\* C11: when the optimistic `start` report succeeds, the resolution has
\* made no search and no season call and makes none, the movie, show and
\* episode the service returns replace the guessed ones in the request, and
\* the state is Started.
C11_OptimisticSuccess ==
  [][(Resumed("report1")' /\ ~isError(answered'.reply)) =>
       LET r == answered'.reply
       IN /\ state' = Started
          /\ calls' = <<"start">> /\ Issued = {}
          /\ data'.movie = (IF r.movie # Undef THEN r.movie ELSE data.movie)
          /\ data'.show = (IF r.show # Undef THEN r.show ELSE data.show)
          /\ data'.episode = (IF r.episode.defined THEN r.episode ELSE data.episode)]_vars

\* the optimistic report has succeeded and named the canonical show
C11_Witness ==
  /\ Resumed("report1") /\ ~isError(answered.reply)
  /\ answered.reply.show = "canonical"
  /\ state = Started /\ data.show = "canonical" /\ data.episode.canonical

\* the number of search calls the resolution has made
Searches(log) == Cardinality({ i \in DOMAIN log : log[i] = "search" })

\* every hit of a non-empty list carries the maximum score
AllPerfect(hits) == \A i \in DOMAIN hits : hits[i].score = 1000

\* C12: when the first report returns 404 and the request has a title, the
\* resolution makes one search call and never a second; when the search
\* returns two or more hits that all score 1000, the state is NotFound and
\* neither a season call nor a second report is issued.
C12_AmbiguousSearch ==
  [][/\ Searches(calls') <= 1
     /\ (/\ Resumed("report1")' /\ answered'.reply.status = "404"
         /\ HasTitle(IF data.movie # Undef THEN data.movie ELSE data.show))
          => calls' = <<"start", "search">>
     /\ (/\ Resumed("search")' /\ ~isError(answered'.reply)
         /\ answered'.reply.array
         /\ Len(answered'.reply.hits) >= 2 /\ AllPerfect(answered'.reply.hits))
          => /\ state' = NotFound
             /\ Issued = {}
             /\ calls' = <<"start", "search">>]_vars

\* the search has returned two hits of score 1000
C12_Witness ==
  /\ Resumed("search") /\ ~isError(answered.reply) /\ answered.reply.array
  /\ Len(answered.reply.hits) = 2 /\ AllPerfect(answered.reply.hits)
  /\ state = NotFound
  /\ calls = <<"start", "search">>

\* the season's episode list has just answered the resolution
SeasonListed(a) == a.co = "season" /\ ~isError(a.reply) /\ a.reply.array

\* the entries of the list eps whose number, or absolute number, is n
ByNumber(eps, n) == { i \in DOMAIN eps : eps[i].number = n }
ByAbsolute(eps, n) == { i \in DOMAIN eps : eps[i].number_abs = n }

\* C13: for every season list and requested episode number n: the one
\* entry with number n replaces the guessed episode; with no entry of
\* number n, the one entry with number_abs n does; with no entry of either,
\* the state is NotFound and no second report is issued.
C13_EpisodeSelection ==
  [][SeasonListed(answered') =>
       LET eps == answered'.reply.episodes
           n == data.episode.number
           byNumber == ByNumber(eps, n)
           byAbs == ByAbsolute(eps, n)
       IN /\ Cardinality(byNumber) = 1
               => data'.episode = eps[CHOOSE i \in byNumber : TRUE]
          /\ (byNumber = {} /\ Cardinality(byAbs) = 1)
               => data'.episode = eps[CHOOSE i \in byAbs : TRUE]
          /\ (byNumber = {} /\ byAbs = {})
               => (state' = NotFound /\ Issued = {} /\ data' = data)]_vars

\* episode 2 was asked for and found by its absolute number: the list has
\* two entries of number 1, which an episode 1 asked for would not settle
C13_Witness ==
  /\ SeasonListed(answered)
  /\ Len(answered.reply.episodes) = 2
  /\ \A i \in 1..2 : answered.reply.episodes[i].number = 1
  /\ ByAbsolute(answered.reply.episodes, 2) = {2}
  /\ data.episode = answered.reply.episodes[2]
  /\ calls = <<"start", "search", "season", "start">>

\* C14 as stated: when more than one entry of the season list has the
\* requested number, or more than one has it as number_abs, the state is
\* Error and no second report is issued.
C14_AmbiguousEpisodeAsStated ==
  [][SeasonListed(answered') =>
       LET eps == answered'.reply.episodes
           n == data.episode.number
       IN (Cardinality(ByNumber(eps, n)) > 1 \/ Cardinality(ByAbsolute(eps, n)) > 1)
            => (state' = Error /\ Issued = {})]_vars

\* C14 amended: when more than one entry has the requested number, or none
\* has it and more than one has it as number_abs, the state is Error, the
\* request stays as it was and no second report is issued.
C14_AmbiguousEpisode ==
  [][SeasonListed(answered') =>
       LET eps == answered'.reply.episodes
           n == data.episode.number
       IN (\/ Cardinality(ByNumber(eps, n)) > 1
           \/ ByNumber(eps, n) = {} /\ Cardinality(ByAbsolute(eps, n)) > 1)
            => (state' = Error /\ Issued = {} /\ data' = data)]_vars

\* two entries carry the requested number as number_abs, none as number
C14_Witness ==
  /\ SeasonListed(answered)
  /\ ByNumber(answered.reply.episodes, data.episode.number) = {}
  /\ Cardinality(ByAbsolute(answered.reply.episodes, data.episode.number)) = 2
  /\ state = Error
  /\ calls = <<"start", "search", "season">>

\* the step resumes _loadTokens with the record the storage holds
Loads == did'.op = "get"

\* C15 (as stated): whenever _loadTokens reads a persisted record whose
\* expiry is in the past, it issues exactly one refresh-token request, and
\* no page's load issues a second one.
C15_RefreshOnExpiryAsStated ==
  [][ /\ refreshes' <= 1
      /\ (Loads /\ stored.expires = "past") => refreshes' = 1 ]_vars

\* C15 (amended): whenever _loadTokens reads a persisted record whose expiry
\* is in the past, it issues exactly one refresh-token request if the record
\* holds a refresh token; if it holds none it issues no request and the
\* record, in memory and persisted, becomes empty. No page's load issues a
\* second refresh request.
C15_RefreshOnExpiry ==
  [][ /\ refreshes' <= 1
      /\ (Loads /\ stored.expires = "past" /\ stored.refresh_token)
           => refreshes' = 1
      /\ (Loads /\ stored.expires = "past" /\ ~stored.refresh_token)
           => (refreshes' = 0 /\ stored' = NoTokens /\ _tokens' = NoTokens) ]_vars

C15_Witness ==
  /\ did.op = "get"
  /\ stored.expires = "past"
  /\ stored.refresh_token
  /\ refreshes = 1
  /\ [co |-> "refresh"] \in BagToSet(pending)

\* C16: no API call is ever issued with an access token whose expiry was in
\* the past when the page loaded: every request the plugin issues, also one
\* made by load() and a playback event while the constructor's refresh is
\* still pending, carries a token that has not expired.
C16_NoExpiredTokenUsed ==
  [][ \A n \in Issued : expires # "past" ]_vars

\* the step dispatches AuthenticationChangeEvent(false), whose handler calls
\* checkAuthenticationResult(window.location.href): disconnect does, and
\* _loadTokens when it ends without an access token
Checks ==
  \/ did'.op = "disconnect"
  \/ did'.op \in {"get", "set"} /\ tokensLoaded' /\ ~access_token'

\* the token-endpoint requests suspended in the bag b
TokenRequests(b) ==
  CopiesIn([co |-> "code"], b) + CopiesIn([co |-> "refresh"], b)

\* C17: when checkAuthenticationResult is called with a code and a state
\* that differs from the authentication_state of the token record, no
\* request goes to the token endpoint, and the call has none of the effects
\* of a success: the record in memory and the persisted record are as the
\* caller left them and the URL keeps its query.
C17_StateMismatch ==
  [][ (Checks /\ query.code /\ query.state # Undef
         /\ query.state # authentication_state')
      => /\ TokenRequests(pending') = TokenRequests(pending)
         /\ _tokens' = (IF did'.op = "get" THEN stored ELSE _tokens)
         /\ stored' = (IF did'.op = "disconnect" THEN NoTokens ELSE stored)
         /\ query' = query ]_vars

C17_Witness ==
  /\ did.op = "get"
  /\ tokensLoaded
  /\ ~access_token
  /\ query.code
  /\ authentication_state \in States
  /\ query.state \in States \ {authentication_state}
  /\ stored.authentication_state = authentication_state
  /\ pending = EmptyBag

\* C18: when the code exchange of checkAuthenticationResult has returned,
\* with a token or without, neither the record in memory nor the persisted
\* record holds an authentication_state, so that the same code and state
\* find no pending state to match, on this page or after a reload.
C18_PendingStateCleared ==
  [][ did'.op = "code"
      => /\ authentication_state' = Undef
         /\ stored'.authentication_state = Undef ]_vars

\* the revoke requests suspended in the bag b
RevokeRequests(b) == CopiesIn([co |-> "revoke"], b)

\* C19: disconnect called while this._tokens holds no access token leaves
\* the persisted record empty, issues no revoke request and leaves the
\* record in memory alone; a second such call right after the first changes
\* neither record.
C19_DisconnectUnauthenticated ==
  [][ (did'.op = "disconnect" /\ ~access_token)
      => /\ stored' = NoTokens
         /\ RevokeRequests(pending') = RevokeRequests(pending)
         /\ _tokens' = _tokens
         /\ (did.op = "disconnect" => stored' = stored) ]_vars

C19_Witness ==
  /\ did.op = "disconnect"
  /\ ~access_token
  /\ stored = NoTokens
  /\ RevokeRequests(pending) = 0

\* C20: disconnect empties the persisted record in the run that issues the
\* revoke request, so the record is empty when the request goes out; the
\* answer to the revoke request, a success or a failure, changes neither
\* the persisted record nor the record in memory and suspends nothing.
C20_DisconnectLocal ==
  [][ /\ did'.op = "disconnect" => stored' = NoTokens
      /\ RevokeRequests(pending') > RevokeRequests(pending)
           => (did'.op = "disconnect" /\ stored' = NoTokens)
      /\ did'.op = "revoke"
           => /\ stored' = stored
              /\ _tokens' = _tokens
              /\ pending' \sqsubseteq pending ]_vars

C20_Witness ==
  /\ did = [op |-> "revoke", ok |-> FALSE]
  /\ stored = NoTokens
  /\ access_token
  /\ RevokeRequests(pending) = 0

\* C21: a token exchange whose request fails (rejected post, body that
\* does not parse) does not throw but yields the empty record: the call that
\* awaits it goes on with this._tokens empty, and after a failed refresh of
\* _loadTokens isAuthenticated() is false, the persisted record holds no
\* access token and _loadTokens goes on to its storage.set.
C21_FailedExchange ==
  [][ (did'.op \in {"refresh", "code"} /\ ~did'.ok)
      => /\ _tokens' = NoTokens
         /\ ~isAuthenticated'
         /\ did'.op = "refresh"
              => /\ ~stored'.access_token
                 /\ CopiesIn([co |-> "set"], pending')
                      = CopiesIn([co |-> "set"], pending) + 1 ]_vars

C21_Witness ==
  /\ did = [op |-> "refresh", ok |-> FALSE]
  /\ ~isAuthenticated
  /\ stored = NoTokens
  /\ [co |-> "set"] \in BagToSet(pending)

\* the request of the operation under way failed: the http client rejected
\* it, with a failed response or with no response, or the body did not parse
Failed == ~request.resolved \/ ~request.parses

\* C22: an operation of the API client whose request failed returns, and
\* what it returns is an object TraktApi.isError recognises.
C22_FailuresAreErrors ==
  (returned.done /\ ~returned.threw /\ Failed) => isError(returned.value)

\* C23: an operation whose request was rejected with a response of status s
\* returns an error of status s; its message is the table's message for s
\* when the table lists s, and else the message made of the status text.
C23_StatusClassification ==
  (returned.done /\ ~returned.threw /\ ~request.resolved
     /\ request.thrown.status # Undef)
  => /\ returned.value.status = request.thrown.status
     /\ \A p \in TraktErrorCodes :
          p[1] = request.thrown.status => returned.value.error = p[2]
     /\ (\A p \in TraktErrorCodes : p[1] # request.thrown.status)
          => <<request.thrown.statusText, returned.value.error>> \in UnknownError

C23_Witness ==
  /\ returned.done
  /\ ~request.resolved
  /\ request.thrown = Response("502", "Bad Gateway")
  /\ returned.value = [status |-> "502", error |-> "Unknown error (Bad Gateway)"]

\* C24: whenever no call of a token method (_loadTokens, authenticate,
\* checkAuthenticationResult, disconnect with its revoke) is suspended, the
\* persisted record equals this._tokens.
C24_PersistedIsMemory ==
  pending = EmptyBag => stored = _tokens

\* C25: a playback state other than PLAYING delivered while the state is
\* Idle issues no call and leaves the state, the request data and the error
\* message as they were.
C25_IdleIgnoresOtherInputs ==
  [][ (input'.met = Idle /\ input'.ps \in PlaybackState \ {PLAYING})
      => (Issued = {} /\ UNCHANGED <<state, data, error, inflight>>) ]_vars

C25_Witness ==
  /\ input.met = Idle
  /\ input.ps \in {PAUSED, ENDED, BUFFERING}
  /\ listening
  /\ state = Idle
  /\ data = NoData

\* C26: when the first report of a resolution returns an error whose
\* status is not 404, the state becomes Error, the error message is the
\* error's, and the resolution has made no call but the first report; in
\* state Error it issues none.
C26_FatalFirstError ==
  [][ /\ (/\ Resumed("report1")' /\ isError(answered'.reply)
          /\ answered'.reply.status # "404")
          => /\ state' = Error
             /\ error' = answered'.reply.error
             /\ Issued = {}
             /\ calls' = <<"start">>
      /\ state = Error => (Issued = {} /\ calls' = calls) ]_vars

C26_Witness ==
  /\ Resumed("report1")
  /\ answered.reply = [status |-> "500",
                       error |-> "Server Error - please open a support issue"]
  /\ state = Error
  /\ error = "Server Error - please open a support issue"
  /\ calls = <<"start">>

\* the hits of the list that carry the exact-match score
Perfect(hits) == { i \in DOMAIN hits : hits[i].score = 1000 }

\* the search has just answered the resolution with the list of its hits
SearchListed(a) == a.co = "search" /\ ~isError(a.reply) /\ a.reply.array

\* C27: for every list of hits the search returns: when one hit, and only
\* one, scores 1000 (and carries its entity), the resolution goes on with
\* one call, the season call for a show and the second report for a movie,
\* and that hit's entity has replaced the guessed one in the request; when
\* no hit or more than one scores 1000, the state is NotFound, the request
\* is as it was and no call is issued.
C27_Disambiguation ==
  [][ SearchListed(answered')
      => LET hits == answered'.reply.hits
         IN /\ Cardinality(Perfect(hits)) # 1
                 => (state' = NotFound /\ Issued = {} /\ data' = data)
            /\ \A i \in Perfect(hits) :
                 (Perfect(hits) = {i} /\ hits[i].entity # Undef)
                 => /\ state' = Loading
                    /\ IF answered'.type = "movie"
                       THEN /\ data' = [data EXCEPT !.movie = hits[i].entity]
                            /\ \E n \in Issued : n.co = "retry"
                       ELSE /\ data' = [data EXCEPT !.show = hits[i].entity]
                            /\ \E n \in Issued : n.co = "season" ]_vars

C27_Witness ==
  /\ SearchListed(answered)
  /\ Len(answered.reply.hits) = 2
  /\ Cardinality(Perfect(answered.reply.hits)) = 1
  /\ state = Loading
  /\ data.show = "canonical"
  /\ calls = <<"start", "search", "season">>

\* the orders in which one resolution makes its calls: the first report,
\* the search, the season call (for a show) and the second report
LookupOrder(log) ==
  \/ \E n \in 0..4 : log = SubSeq(<<"start", "search", "season", "start">>, 1, n)
  \/ log = <<"start", "search", "start">>

\* the resolution has issued its second report
Retried(log) == Len(log) >= 3 /\ log[Len(log)] = "start"

\* C28: one resolution makes its calls in the order report, search, season,
\* report, each at most once, the season call only for a show; the second
\* report is issued once the request holds the movie the search has found,
\* or the show and the episode the season call has found; when it
\* answers, the state is Started on a success, NotFound on a 404 and Error on
\* any other error, and the resolution makes no further call.
C28_RetryOnce ==
  [][ /\ LookupOrder(calls')
      /\ (\E n \in Issued : n.co = "retry")
           => (Retried(calls') /\ ~Retried(calls)
               /\ IF answered'.co = "search"
                  THEN \E i \in Perfect(answered'.reply.hits) :
                         data'.movie = answered'.reply.hits[i].entity
                  ELSE data'.show = "canonical" /\ data'.episode.canonical)
      /\ Resumed("retry")'
           => /\ Issued = {}
              /\ state' = IF ~isError(answered'.reply) THEN Started
                          ELSE IF answered'.reply.status = "404" THEN NotFound
                          ELSE Error
      /\ Retried(calls) => calls' = calls ]_vars

C28_Witness ==
  /\ Resumed("retry")
  /\ isError(answered.reply) /\ answered.reply.status = "404"
  /\ state = NotFound
  /\ calls = <<"start", "search", "season", "start">>
  /\ inflight = EmptyBag

\* the title of the movie, or else of the show, of the request d is empty
Untitled(d) == ~HasTitle(IF d.movie # Undef THEN d.movie ELSE d.show)

\* C29: when the first report returns 404 and the request has no title, the
\* call returns at once: it issues no search, and the resolution, which has
\* made the first report only, makes no call later.
C29_NoTitle ==
  [][ /\ (/\ Resumed("report1")' /\ isError(answered'.reply)
          /\ answered'.reply.status = "404" /\ Untitled(data))
          => /\ Issued = {}
             /\ inflight' = EmptyBag
             /\ calls' = <<"start">>
      /\ (calls = <<"start">> /\ inflight = EmptyBag /\ state = Loading)
          => calls' = calls ]_vars

C29_Witness ==
  /\ Resumed("report1")
  /\ isError(answered.reply) /\ answered.reply.status = "404"
  /\ data.defined /\ Untitled(data)
  /\ calls = <<"start">>
  /\ inflight = EmptyBag

\* C30: in every reachable state, when the state is Error an error message
\* is stored.
C30_ErrorHasMessage ==
  state = Error => error # Undef

\* C31: every report the plugin sends, the first report, the resolver's
\* second report and each pause, start and stop of a tracking state,
\* carries in its progress field the progress of the playback at the moment
\* the report is issued.
C31_ProgressPerReport ==
  [][ \A n \in Issued : n.op \in Reports => data'.progress = _getProgress' ]_vars

\* C32: the answers to the reports of the playback-state events are
\* applied in the order of the events: no step applies the answer to a
\* report after the answer to a report that a later event issued, so that
\* the state the last answer leaves is the one of the last event's report.
C32_InOrder == ~late

\* C33: after disconnect() isAuthenticated() is false, as the
\* AuthenticationChangeEvent(false) it dispatches says, and a disconnect()
\* that follows a disconnect() issues no revoke request.
C33_DisconnectUnauthenticates ==
  [][ did'.op = "disconnect"
      => /\ ~isAuthenticated'
         /\ did.op = "disconnect"
              => RevokeRequests(pending') = RevokeRequests(pending) ]_vars

\* C34: once disconnect() has been called no scrobble, search or season
\* request goes out with the disconnected access token; in particular the
\* step that follows disconnect(), which is no completed authorization when
\* it is an event of the player, issues none.
C34_NoRequestAfterDisconnect ==
  [][ did.op = "disconnect" => Issued = {} ]_vars

\* A refresh is in flight right after disconnect() only if it was when
\* disconnect() was called; a code exchange also when disconnect()'s own
\* checkAuthenticationResult has begun none.
InFlightAtDisconnect(co) ==
  /\ did.op = "disconnect"
  /\ Awaits(co)
  /\ co = "code" => checkAuthenticationResult(query, _tokens) = EmptyBag

\* C35: a refresh or a code exchange in flight when disconnect() is called
\* leaves the disconnect as it is when it completes: the persisted record
\* holds no access token and isAuthenticated() is false.
C35_DisconnectNotUndone ==
  [][ \A co \in {"refresh", "code"} :
        (InFlightAtDisconnect(co) /\ did'.op = co)
        => (~stored'.access_token /\ ~isAuthenticated') ]_vars

\* C36: a media item loaded through load() while the persisted record
\* holds an access token that has not expired is tracked: load() registers
\* the playback-state listener, be the constructor's _loadTokens finished
\* or not.
C36_LoadTracks ==
  [][ (~hostLoaded /\ hostLoaded' /\ stored.access_token /\ ~Expired(stored))
      => listening' ]_vars

\* the step is a ping: _track ran
Pings == _callCount' = _callCount + 1

\* C37: the elapsed time of the tracker never decreases but for a ping,
\* which resets it to 0; a seek leaves it as it is; and after every
\* timeupdate it is at least 0 and less than the interval of the next ping,
\* intervals[min(callCount, length - 1)].
C37_ElapsedTime ==
  [][ /\ _elapsedTime' < _elapsedTime => (Pings /\ _elapsedTime' = 0)
      /\ event' = "seek" => _elapsedTime' = _elapsedTime
      /\ event' = "timeupdate"
           => (0 <= _elapsedTime' /\ _elapsedTime' < _getInterval') ]_vars

\* past the first ping, a timeupdate has added to the elapsed time and left
\* it below the second interval
C37_Witness ==
  /\ event = "timeupdate"
  /\ _intervals = <<1000, 2000>>
  /\ _callCount = 1
  /\ _elapsedTime = 1
  /\ _lastTime = MaxTime

\* C38: load() starts a fresh ping sequence: the call count, the elapsed
\* time and the last time are 0 after it, so that the first ping of the
\* media item reports call count 1 and waits for the first interval.
C38_FreshSequence ==
  [][ event' = "load"
      => (_callCount' = 0 /\ _elapsedTime' = 0 /\ _lastTime' = 0) ]_vars

\* C39: every VideoTracker created that Bootstrap._tracking does not
\* reference has been disposed, so at most one is undisposed.
C39_OneUndisposedTracker ==
  \A i \in DOMAIN trackers : i # _tracking => trackers[i]

====
